---------------------------- MODULE Spec2Model ----------------------------
(***************************************************************************)
(* The procamp_vaapi video filter (libavfilter/vf_procamp_vaapi.c) as a   *)
(* state machine.  The state is the filter's private context               *)
(* (ProcampVAAPIContext), the objects live inside the VA driver, the       *)
(* references and heap objects the filter holds, and what the most recent  *)
(* callback did: the driver calls it issued, in order, its return value    *)
(* and the frames it handed downstream.  Each callback of the AVFilter     *)
(* (init, config_input, config_output, filter_frame, uninit) is one        *)
(* action; the outcome of every driver or library call it makes is an      *)
(* input of the action.                                                    *)
(*                                                                         *)
(* Float values (the four controls and the device ranges) are fixed-point  *)
(* numbers: the integer x stands for x / Unit.                             *)
(***************************************************************************)
EXTENDS Integers, Sequences, FiniteSets, TLC

\* ------------------------------------------------------------- bounds
Unit       == 2   \* fixed-point denominator of the float values
NumInPools == 2   \* distinct hardware frame pools the upstream can offer
MaxLeak    == 1   \* cap on the number of objects the filter has leaked
MaxPts     == 2   \* presentation timestamps 1..MaxPts

\* ---------------------------------------------------------- constants
NULL          == 0
VA_INVALID_ID == -1
EIO           == 5
ENOMEM        == 12
EINVAL        == 22
AVERROR(e)    == -e

AV_PIX_FMT_NONE == "none"
\* enum value 0, what a zero-filled context holds before init
AV_PIX_FMT_ZERO == "yuv420p"

\* the AVHWDeviceContext every input pool belongs to
Device == 1

\* The hardware frame pool p of the upstream (an AVHWFramesContext).
InputFrames(p) ==
    [sw_format  |-> IF p % 2 = 1 THEN "nv12" ELSE "p010",
     width      |-> 640 * p,
     height     |-> 360 * p,
     device_ref |-> Device]

InPools == 1 .. NumInPools

\* constraints->valid_sw_formats: no list at all, or a list of formats
ValidLists ==
    { [has |-> FALSE, fmts |-> {}],
      [has |-> TRUE,  fmts |-> {"nv12"}],
      [has |-> TRUE,  fmts |-> {"nv12", "p010"}] }

\* ---------------------------------------------- the four controls
\* index of a control in procamp_params[]
Controls == 1 .. 4
\* VAProcColorBalanceType of procamp_params[i]: Hue 1, Saturation 2,
\* Brightness 3, Contrast 4; procamp_params is brightness, contrast, hue,
\* saturation in that order
Attrib(i) == CASE i = 1 -> 3 [] i = 2 -> 4 [] i = 3 -> 1 [] OTHER -> 2

\* AVOption table: default, minimum and maximum of each control
OptDefault(i) == IF i \in {1, 3} THEN 0 ELSE Unit
OptMin(i) == CASE i = 1 -> -100 * Unit [] i = 3 -> -180 * Unit [] OTHER -> 0
OptMax(i) == CASE i = 1 -> 100 * Unit [] i = 3 -> 180 * Unit [] OTHER -> 10 * Unit

\* the user values tried for control i: the default, a non-integer value
\* next to it, and an integer value away from it
OptValues(i) == << OptDefault(i), OptDefault(i) + 1, OptDefault(i) + 6 * Unit >>

\* the option strings tried: in each the controls take different kinds of
\* value, and over the three each control takes each of its values
OptionSets ==
    { [i \in Controls |-> OptValues(i)[((i + k) % 3) + 1]] : k \in 0 .. 2 }

\* device ranges the capability query may report for a control: one
\* holding every default, one holding none, one with non-integer ends
Ranges ==
    << [min |-> -50 * Unit, max |-> 50 * Unit],
       [min |-> 2 * Unit,   max |-> 4 * Unit],
       [min |-> 1,          max |-> 3 * Unit + 1] >>

\* what the capability query may fill procamp_caps with, by attribute: in
\* each the attributes have different ranges, and over the three each
\* attribute has each range
CapsChoice(k) == [a \in Controls |-> Ranges[((a + k) % 3) + 1]]
CapsChoices == { CapsChoice(k) : k \in 0 .. 2 }

\* the number of entries the capability query may fill in: all four, or
\* the first two only (a device that reports hue and saturation alone)
NumCapsChoices == {2, 4}

\* procamp_caps after the query: cleared by memset, then the entries the
\* device reports, the entry of attribute a at index a - 1
ZeroRange == [min |-> 0, max |-> 0]
procamp_caps(e) ==
    [a \in Controls |-> IF a <= e.num_caps THEN e.caps[a] ELSE ZeroRange]

\* the build and device of the lifecycle specification: each release
\* policy, one set of ranges, all of them reported
Envs ==
    { [CONFIG_VAAPI_1 |-> e[1], driver_quirks |-> e[2],
       caps |-> [a \in Controls |-> Ranges[1]], num_caps |-> 4] :
        e \in {<<TRUE, FALSE>>, <<FALSE, TRUE>>, <<FALSE, FALSE>>} }

\* the builds and devices of the parameter specification: one release
\* policy, every set of ranges reported in full, one reported in part
ParamEnvs ==
    { [CONFIG_VAAPI_1 |-> TRUE, driver_quirks |-> FALSE,
       caps |-> cn[1], num_caps |-> cn[2]] :
        cn \in { x \in CapsChoices \X NumCapsChoices :
                    x[2] = 4 \/ x[1] = CapsChoice(0) } }

\* the options of the lifecycle specification: brightness set by the user
UserOptions ==
    [i \in Controls |-> IF i = 1 THEN OptValues(i)[2] ELSE OptValues(i)[1]]

\* ------------------------------------------------------------- state
VARIABLES
    stage,      \* "constructed", "initialised" or "freed"
    env,        \* build and device: CONFIG_VAAPI_1, driver_quirks, the
                \* ranges the device has for the four controls (caps) and
                \* how many of them its capability query reports (num_caps)
    ctx,        \* ProcampVAAPIContext
    vaConfigs,  \* driver: ids of the live configurations
    vaContexts, \* driver: live execution context id -> what it is bound to
    vaBuffers,  \* driver: live buffer id -> its type and contents
    hwframes,   \* output frame pools (AVHWFramesContext) by id
    outlink,    \* the output AVFilterLink: w, h, hw_frames_ctx
    refsHeld,   \* references the filter took and has not released
    heap,       \* heap objects the filter owns and has not freed: every
                \* hwconfig and constraints; of the frames, those the most
                \* recent callback was given or allocated
    calls,      \* driver calls and reference releases of the most recent
                \* callback, in order
    ret,        \* return value of the most recent callback
    delivered,  \* frames the most recent callback handed downstream
    fault,      \* "none", or how the process died
    last        \* the most recent callback and its inputs

vars == <<stage, env, ctx, vaConfigs, vaContexts, vaBuffers, hwframes,
          outlink, refsHeld, heap, calls, ret, delivered, fault, last>>

\* The part of the state a callback works on, as one record.
Cur ==
    [ctx |-> ctx, vaConfigs |-> vaConfigs, vaContexts |-> vaContexts,
     vaBuffers |-> vaBuffers, hwframes |-> hwframes, outlink |-> outlink,
     refsHeld |-> refsHeld,
     heap |-> [heap EXCEPT !.input_frames = 0, !.output_frames = 0],
     calls |-> <<>>, ret |-> 0,
     delivered |-> <<>>, fault |-> "none",
     CONFIG_VAAPI_1 |-> env.CONFIG_VAAPI_1,
     driver_quirks |-> env.driver_quirks, caps |-> procamp_caps(env)]

Commit(m) ==
    /\ ctx' = m.ctx
    /\ vaConfigs' = m.vaConfigs
    /\ vaContexts' = m.vaContexts
    /\ vaBuffers' = m.vaBuffers
    /\ hwframes' = m.hwframes
    /\ outlink' = m.outlink
    /\ refsHeld' = m.refsHeld
    /\ heap' = m.heap
    /\ calls' = m.calls
    /\ ret' = m.ret
    /\ delivered' = m.delivered
    /\ fault' = m.fault

\* the smallest positive id not in use
NewId(used) ==
    CHOOSE i \in 1 .. (Cardinality(used) + 1) :
        /\ i \notin used
        /\ \A j \in 1 .. (i - 1) : j \in used

\* an entry of the log of calls: function, object, whether it succeeded,
\* an argument, and (vaCreateBuffer only) the contents given to the driver
Call(fn, id, ok, arg) ==
    [fn |-> fn, id |-> id, ok |-> ok, arg |-> arg, data |-> <<>>]

\* a statement that runs only while the process is alive
Then(m, F(_)) == IF m.fault # "none" THEN m ELSE F(m)

\* ctx->hwctx->display: a null hwctx is a null-pointer dereference
Display(m, F(_)) ==
    IF m.fault # "none" THEN m
    ELSE IF m.ctx.hwctx = NULL THEN [m EXCEPT !.fault = "segv hwctx"]
    ELSE F(m)

\* ------------------------------------------------------- the driver
vaDestroyBuffer(m, id) ==
    Display(m, LAMBDA x :
        [x EXCEPT
            !.calls = Append(@, Call("vaDestroyBuffer", id,
                                     id \in DOMAIN x.vaBuffers,
                                     IF id \in DOMAIN x.vaBuffers
                                     THEN x.vaBuffers[id].type ELSE "")),
            !.vaBuffers = [b \in DOMAIN x.vaBuffers \ {id} |-> x.vaBuffers[b]]])

vaDestroyContext(m, id) ==
    Display(m, LAMBDA x :
        [x EXCEPT
            !.calls = Append(@, Call("vaDestroyContext", id,
                                     id \in DOMAIN x.vaContexts, "")),
            !.vaContexts = [c \in DOMAIN x.vaContexts \ {id} |-> x.vaContexts[c]]])

vaDestroyConfig(m, id) ==
    Display(m, LAMBDA x :
        [x EXCEPT
            !.calls = Append(@, Call("vaDestroyConfig", id,
                                     id \in x.vaConfigs, "")),
            !.vaConfigs = @ \ {id}])

\* av_buffer_unref(&ctx->output_frames_ref): nothing on a null pointer,
\* else the reference is released, which the log of calls records
unref_output_frames(m) ==
    IF m.ctx.output_frames_ref = NULL THEN m
    ELSE [m EXCEPT !.calls = Append(@, Call("av_buffer_unref",
                                            m.ctx.output_frames_ref, TRUE,
                                            "output_frames_ref")),
                   !.ctx.output_frames_ref = NULL, !.refsHeld.output = @ - 1]

\* av_buffer_unref(&ctx->device_ref)
unref_device(m) ==
    IF m.ctx.device_ref = NULL THEN m
    ELSE [m EXCEPT !.calls = Append(@, Call("av_buffer_unref",
                                            m.ctx.device_ref, TRUE,
                                            "device_ref")),
                   !.ctx.device_ref = NULL, !.refsHeld.device = @ - 1]

\* av_buffer_unref(&ctx->input_frames_ref)
unref_input_frames(m) ==
    IF m.ctx.input_frames_ref = NULL THEN m
    ELSE [m EXCEPT !.calls = Append(@, Call("av_buffer_unref",
                                            m.ctx.input_frames_ref, TRUE,
                                            "input_frames_ref")),
                   !.ctx.input_frames_ref = NULL, !.refsHeld.input = @ - 1]

\* ------------------------------------------ procamp_vaapi_pipeline_uninit
\* pipeline_uninit with the execution context forgotten, not destroyed
pipeline_uninit_forgets_context(m) ==
    LET m1 == IF m.ctx.filter_buffer # VA_INVALID_ID
              THEN Then(vaDestroyBuffer(m, m.ctx.filter_buffer), LAMBDA x :
                        [x EXCEPT !.ctx.filter_buffer = VA_INVALID_ID])
              ELSE m
        m2 == Then(m1, LAMBDA y : [y EXCEPT !.ctx.va_context = VA_INVALID_ID])
        m3 == Then(m2, LAMBDA y :
                IF y.ctx.va_config # VA_INVALID_ID
                THEN Then(vaDestroyConfig(y, y.ctx.va_config), LAMBDA x :
                        [x EXCEPT !.ctx.va_config = VA_INVALID_ID])
                ELSE y)
    IN  Then(m3, LAMBDA y :
            [unref_device(unref_output_frames(y)) EXCEPT !.ctx.hwctx = NULL])

\* pipeline_uninit leaving the id of the destroyed parameter buffer in place
pipeline_uninit_keeps_buffer_id(m) ==
    LET m1 == IF m.ctx.filter_buffer # VA_INVALID_ID
              THEN vaDestroyBuffer(m, m.ctx.filter_buffer)
              ELSE m
        m2 == Then(m1, LAMBDA y :
                IF y.ctx.va_context # VA_INVALID_ID
                THEN Then(vaDestroyContext(y, y.ctx.va_context), LAMBDA x :
                        [x EXCEPT !.ctx.va_context = VA_INVALID_ID])
                ELSE y)
        m3 == Then(m2, LAMBDA y :
                IF y.ctx.va_config # VA_INVALID_ID
                THEN Then(vaDestroyConfig(y, y.ctx.va_config), LAMBDA x :
                        [x EXCEPT !.ctx.va_config = VA_INVALID_ID])
                ELSE y)
    IN  Then(m3, LAMBDA y :
            [unref_device(unref_output_frames(y)) EXCEPT !.ctx.hwctx = NULL])

\* pipeline_uninit destroying the configuration before the execution context
pipeline_uninit_config_first(m) ==
    LET m1 == IF m.ctx.filter_buffer # VA_INVALID_ID
              THEN Then(vaDestroyBuffer(m, m.ctx.filter_buffer), LAMBDA x :
                        [x EXCEPT !.ctx.filter_buffer = VA_INVALID_ID])
              ELSE m
        m2 == Then(m1, LAMBDA y :
                IF y.ctx.va_config # VA_INVALID_ID
                THEN Then(vaDestroyConfig(y, y.ctx.va_config), LAMBDA x :
                        [x EXCEPT !.ctx.va_config = VA_INVALID_ID])
                ELSE y)
        m3 == Then(m2, LAMBDA y :
                IF y.ctx.va_context # VA_INVALID_ID
                THEN Then(vaDestroyContext(y, y.ctx.va_context), LAMBDA x :
                        [x EXCEPT !.ctx.va_context = VA_INVALID_ID])
                ELSE y)
    IN  Then(m3, LAMBDA y :
            [unref_device(unref_output_frames(y)) EXCEPT !.ctx.hwctx = NULL])

pipeline_uninit(m) ==
    LET m1 == IF m.ctx.filter_buffer # VA_INVALID_ID
              THEN Then(vaDestroyBuffer(m, m.ctx.filter_buffer), LAMBDA x :
                        [x EXCEPT !.ctx.filter_buffer = VA_INVALID_ID])
              ELSE m
        m2 == Then(m1, LAMBDA y :
                IF y.ctx.va_context # VA_INVALID_ID
                THEN Then(vaDestroyContext(y, y.ctx.va_context), LAMBDA x :
                        [x EXCEPT !.ctx.va_context = VA_INVALID_ID])
                ELSE y)
        m3 == Then(m2, LAMBDA y :
                IF y.ctx.va_config # VA_INVALID_ID
                THEN Then(vaDestroyConfig(y, y.ctx.va_config), LAMBDA x :
                        [x EXCEPT !.ctx.va_config = VA_INVALID_ID])
                ELSE y)
    IN  Then(m3, LAMBDA y :
            [unref_device(unref_output_frames(y)) EXCEPT !.ctx.hwctx = NULL])

\* ----------------------------------------------------- procamp_vaapi_init
init(m) ==
    [m EXCEPT !.ctx.va_config = VA_INVALID_ID,
              !.ctx.va_context = VA_INVALID_ID,
              !.ctx.filter_buffer = VA_INVALID_ID,
              !.ctx.valid_ids = 1,
              !.ctx.output_format = AV_PIX_FMT_NONE,
              !.ret = 0]

\* --------------------------------------------- procamp_vaapi_config_input
\* config_input checking the link before it tears the pipeline down
config_input_checks_first(m, hw_frames_ctx) ==
    IF hw_frames_ctx = NULL
    THEN [m EXCEPT !.ret = AVERROR(EINVAL)]
    ELSE Then(pipeline_uninit(m), LAMBDA m0 :
            [m0 EXCEPT !.ctx.input_frames_ref = hw_frames_ctx,
                       !.refsHeld.input = @ + 1,
                       !.ctx.input_frames = hw_frames_ctx,
                       !.ret = 0])

\* hw_frames_ctx: inlink->hw_frames_ctx, NULL or one of the upstream's pools
config_input(m, hw_frames_ctx) ==
    Then(pipeline_uninit(m), LAMBDA m0 :
        IF hw_frames_ctx = NULL
        THEN [m0 EXCEPT !.ret = AVERROR(EINVAL)]
        ELSE [m0 EXCEPT !.ctx.input_frames_ref = hw_frames_ctx,
                        !.refsHeld.input = @ + 1,
                        !.ctx.input_frames = hw_frames_ctx,
                        !.ret = 0])

\* --------------------------------------------------- procamp_vaapi_uninit
uninit(m) ==
    LET m0 == IF m.ctx.valid_ids # 0 THEN pipeline_uninit(m) ELSE m
    IN  Then(m0, LAMBDA x :
            unref_device(unref_output_frames(unref_input_frames(x))))

\* ---------------------------------------------------------------- av_clip
\* The conversion of a float argument to int: truncation toward zero.
FloatToInt(x) == IF x >= 0 THEN x \div Unit ELSE -((-x) \div Unit)

\* The conversion of an int to float.
IntToFloat(n) == n * Unit

\* libavutil's integer clip, int av_clip(int a, int amin, int amax)
av_clip(a, amin, amax) ==
    IF a < amin THEN amin ELSE IF a > amax THEN amax ELSE a

\* the value procamp_params[i] starts from
ParamDefault(i) == IF i \in {1, 3} THEN 0 ELSE IntToFloat(1)

\* the user value of control i
UserValue(c, i) ==
    CASE i = 1 -> c.bright [] i = 2 -> c.contrast
      [] i = 3 -> c.hue    [] OTHER -> c.saturation

\* ParamValue with the clip applied to the default too
ParamValue_always_clips(c, i, caps) ==
    IntToFloat(av_clip(FloatToInt(UserValue(c, i)),
                       FloatToInt(caps[Attrib(i)].min),
                       FloatToInt(caps[Attrib(i)].max)))

\* procamp_params[i].value, given the array procamp_caps the query filled
\* (indexed by attribute, as procamp_caps[attrib - 1] is in the code)
ParamValue(c, i, caps) ==
    IF UserValue(c, i) # ParamDefault(i)
    THEN IntToFloat(av_clip(FloatToInt(UserValue(c, i)),
                            FloatToInt(caps[Attrib(i)].min),
                            FloatToInt(caps[Attrib(i)].max)))
    ELSE ParamDefault(i)

\* ------------------------------------------------ more of the driver
vaCreateConfig(m, ok) ==
    Display(m, LAMBDA x :
        IF ok
        THEN LET id == NewId(x.vaConfigs) IN
             [x EXCEPT !.calls = Append(@, Call("vaCreateConfig", id, TRUE, "")),
                       !.vaConfigs = @ \cup {id},
                       !.ctx.va_config = id]
        ELSE [x EXCEPT !.calls = Append(@, Call("vaCreateConfig",
                                                VA_INVALID_ID, FALSE, ""))])

vaCreateContext(m, ok) ==
    Display(m, LAMBDA x :
        IF ok
        THEN LET id == NewId(DOMAIN x.vaContexts) IN
             [x EXCEPT !.calls = Append(@, Call("vaCreateContext", id, TRUE, "")),
                       !.vaContexts =
                           [c \in DOMAIN x.vaContexts \cup {id} |->
                               IF c = id
                               THEN [config |-> x.ctx.va_config,
                                     frames |-> x.ctx.output_frames_ref,
                                     input  |-> x.ctx.input_frames,
                                     width  |-> x.ctx.output_width,
                                     height |-> x.ctx.output_height]
                               ELSE x.vaContexts[c]],
                       !.ctx.va_context = id]
        ELSE [x EXCEPT !.calls = Append(@, Call("vaCreateContext",
                                                VA_INVALID_ID, FALSE, ""))])

\* vaCreateBuffer of the given type and contents; a successful call leaves
\* the new id in buffer_id of the result
vaCreateBuffer(m, ok, type, data) ==
    Display(m, LAMBDA x :
        IF ok
        THEN LET id == NewId(DOMAIN x.vaBuffers) IN
             [x EXCEPT !.calls = Append(@,
                           [Call("vaCreateBuffer", id, TRUE, type)
                               EXCEPT !.data = data]),
                       !.vaBuffers =
                           [b \in DOMAIN x.vaBuffers \cup {id} |->
                               IF b = id THEN [type |-> type, data |-> data]
                               ELSE x.vaBuffers[b]]]
        ELSE [x EXCEPT !.calls = Append(@,
                           [Call("vaCreateBuffer", VA_INVALID_ID, FALSE, type)
                               EXCEPT !.data = data])])

vaQueryVideoProcFilterCaps(m, ok) ==
    Display(m, LAMBDA x :
        [x EXCEPT !.calls = Append(@, Call("vaQueryVideoProcFilterCaps",
                                           x.ctx.va_context, ok, ""))])

\* ------------------------------------- procamp_vaapi_build_filter_params
\* build_filter_params going on to the buffer when the query has failed
build_filter_params_ignores_query(m, in) ==
    Then(vaQueryVideoProcFilterCaps(m, in.failAt # "querycaps"), LAMBDA m1 :
        IF m1.ctx.filter_buffer # VA_INVALID_ID
        THEN [m1 EXCEPT !.fault = "assert filter_buffer"]
        ELSE LET params == [i \in Controls |-> ParamValue(m1.ctx, i, m1.caps)]
                 before == DOMAIN m1.vaBuffers
             IN  Then(vaCreateBuffer(m1, in.failAt # "buffer", "filter", params),
                      LAMBDA m2 :
                        IF in.failAt = "buffer"
                        THEN [m2 EXCEPT !.ret = AVERROR(EIO)]
                        ELSE [m2 EXCEPT
                                !.ctx.filter_buffer =
                                    CHOOSE b \in DOMAIN m2.vaBuffers : b \notin before,
                                !.ret = 0]))

\* in.failAt = "querycaps": the query fails; "buffer": the creation fails.
\* m.caps is what the query fills procamp_caps with.  The result's ret is
\* the function's return value.
build_filter_params(m, in) ==
    Then(vaQueryVideoProcFilterCaps(m, in.failAt # "querycaps"), LAMBDA m1 :
        IF in.failAt = "querycaps"
        THEN [m1 EXCEPT !.ret = AVERROR(EIO)]
        ELSE IF m1.ctx.filter_buffer # VA_INVALID_ID
        THEN [m1 EXCEPT !.fault = "assert filter_buffer"]
        ELSE LET params == [i \in Controls |-> ParamValue(m1.ctx, i, m1.caps)]
                 before == DOMAIN m1.vaBuffers
             IN  Then(vaCreateBuffer(m1, in.failAt # "buffer", "filter", params),
                      LAMBDA m2 :
                        IF in.failAt = "buffer"
                        THEN [m2 EXCEPT !.ret = AVERROR(EIO)]
                        ELSE [m2 EXCEPT
                                !.ctx.filter_buffer =
                                    CHOOSE b \in DOMAIN m2.vaBuffers : b \notin before,
                                !.ret = 0]))

\* -------------------------------------------- procamp_vaapi_config_output
\* the steps of config_output that can fail, or "none"
ConfigSteps ==
    {"none", "config", "hwconfig", "constraints", "pool_alloc", "pool_init",
     "context", "querycaps", "buffer", "outlink_ref"}

\* pool ids something still points to
PoolsInUse(m) ==
    ({m.ctx.output_frames_ref, m.outlink.hw_frames_ctx}
        \cup {m.vaContexts[c].frames : c \in DOMAIN m.vaContexts}) \ {NULL}

\* The fail: label releasing the device binding as well
config_output_fail_unbinds(m, err, hwconfig, constraints) ==
    [unref_device(unref_output_frames(m)) EXCEPT
        !.ctx.hwctx = NULL,
        !.heap.hwconfig = @ - (IF hwconfig THEN 1 ELSE 0),
        !.heap.constraints = @ - (IF constraints THEN 1 ELSE 0),
        !.ret = err]

\* The fail: label.  hwconfig, constraints: whether the local is non-null.
config_output_fail(m, err, hwconfig, constraints) ==
    [unref_output_frames(m) EXCEPT
        !.heap.hwconfig = @ - (IF hwconfig THEN 1 ELSE 0),
        !.heap.constraints = @ - (IF constraints THEN 1 ELSE 0),
        !.ret = err]

\* From the parameter buffer to the end: lines 296-311.
config_output_finish(m, in) ==
    Then(build_filter_params(m, in), LAMBDA m1 :
        IF m1.ret < 0
        THEN config_output_fail(m1, m1.ret, TRUE, TRUE)
        ELSE LET m2 == [m1 EXCEPT !.outlink.w = m1.ctx.output_width,
                                  !.outlink.h = m1.ctx.output_height]
             IN  IF in.failAt = "outlink_ref"
                 THEN config_output_fail(
                          [m2 EXCEPT !.outlink.hw_frames_ctx = NULL],
                          AVERROR(ENOMEM), TRUE, TRUE)
                 ELSE [m2 EXCEPT
                         !.outlink.hw_frames_ctx = m2.ctx.output_frames_ref,
                         !.heap.hwconfig = @ - 1,
                         !.heap.constraints = @ - 1,
                         !.ret = 0])

\* The execution context: lines 282-294.
config_output_context(m, in) ==
    IF m.ctx.va_context # VA_INVALID_ID
    THEN [m EXCEPT !.fault = "assert va_context"]
    ELSE Then(vaCreateContext(m, in.failAt # "context"), LAMBDA m1 :
            IF in.failAt = "context"
            THEN [m1 EXCEPT !.ret = AVERROR(EIO)]
            ELSE config_output_finish(m1, in))

\* The output pool: lines 255-280.
config_output_pool(m, in) ==
    IF in.failAt = "pool_alloc"
    THEN config_output_fail(m, AVERROR(ENOMEM), TRUE, TRUE)
    ELSE LET id == NewId(PoolsInUse(m))
             m1 == [m EXCEPT
                      !.ctx.output_frames_ref = id,
                      !.refsHeld.output = @ + 1,
                      !.ctx.output_frames = id,
                      !.hwframes =
                          [p \in PoolsInUse(m) \cup {id} |->
                              IF p = id
                              THEN [format    |-> "vaapi",
                                    sw_format |-> m.ctx.output_format,
                                    width     |-> m.ctx.output_width,
                                    height    |-> m.ctx.output_height,
                                    initial_pool_size |-> 10]
                              ELSE m.hwframes[p]]]
         IN  IF in.failAt = "pool_init"
             THEN config_output_fail(m1, AVERROR(ENOMEM), TRUE, TRUE)
             ELSE config_output_context(m1, in)

\* a check of the output format that lets every format through
format_supported_always(valid, fmt) == TRUE

\* Lines 242-253: whether the search of constraints->valid_sw_formats is
\* skipped (no list) or ends at the format.
format_supported(valid, fmt) == ~valid.has \/ fmt \in valid.fmts

\* hwconfig, constraints and the output format: lines 226-253.
config_output_format(m, in) ==
    IF in.failAt = "hwconfig"
    THEN config_output_fail(m, AVERROR(ENOMEM), FALSE, FALSE)
    ELSE LET m1 == [m EXCEPT !.heap.hwconfig = @ + 1] IN
         IF in.failAt = "constraints"
         THEN config_output_fail(m1, AVERROR(ENOMEM), TRUE, FALSE)
         ELSE LET m2 == [m1 EXCEPT
                           !.heap.constraints = @ + 1,
                           !.ctx.output_format =
                               IF @ = AV_PIX_FMT_NONE
                               THEN InputFrames(m1.ctx.input_frames).sw_format
                               ELSE @]
              IN  IF ~format_supported(in.valid, m2.ctx.output_format)
                  THEN config_output_fail(m2, AVERROR(EINVAL), TRUE, TRUE)
                  ELSE config_output_pool(m2, in)

\* config_output without the teardown it starts with
config_output_without_teardown(m, in) ==
    LET m1 == [m EXCEPT
                 !.ctx.device_ref = InputFrames(m.ctx.input_frames).device_ref,
                 !.refsHeld.device = @ + 1,
                 !.ctx.hwctx = InputFrames(m.ctx.input_frames).device_ref,
                 !.ctx.output_width = InputFrames(m.ctx.input_frames).width,
                 !.ctx.output_height = InputFrames(m.ctx.input_frames).height]
    IN  IF m1.ctx.va_config # VA_INVALID_ID
        THEN [m1 EXCEPT !.fault = "assert va_config"]
        ELSE Then(vaCreateConfig(m1, in.failAt # "config"), LAMBDA m2 :
                IF in.failAt = "config"
                THEN config_output_fail(m2, AVERROR(EIO), FALSE, FALSE)
                ELSE config_output_format(m2, in))

\* in.failAt: the step that fails; in.valid: constraints->valid_sw_formats.
\* Called with ctx->input_frames set (av_assert0 at line 209).
config_output(m, in) ==
    Then(pipeline_uninit(m), LAMBDA m0 :
        LET m1 == [m0 EXCEPT
                     !.ctx.device_ref = InputFrames(m0.ctx.input_frames).device_ref,
                     !.refsHeld.device = @ + 1,
                     !.ctx.hwctx = InputFrames(m0.ctx.input_frames).device_ref,
                     !.ctx.output_width = InputFrames(m0.ctx.input_frames).width,
                     !.ctx.output_height = InputFrames(m0.ctx.input_frames).height]
        IN  IF m1.ctx.va_config # VA_INVALID_ID
            THEN [m1 EXCEPT !.fault = "assert va_config"]
            ELSE Then(vaCreateConfig(m1, in.failAt # "config"), LAMBDA m2 :
                    IF in.failAt = "config"
                    THEN config_output_fail(m2, AVERROR(EIO), FALSE, FALSE)
                    ELSE config_output_format(m2, in)))

\* --------------------------------------------- vaapi_proc_colour_standard
Colorspaces ==
    <<"bt709", "bt470bg", "smpte170m", "smpte240m", "unspecified", "bt2020_ncl">>

\* the input frames tried: one per colorspace, the timestamps going round
Frames ==
    { [pts |-> ((k - 1) % MaxPts) + 1, colorspace |-> Colorspaces[k]] :
        k \in 1 .. Len(Colorspaces) }

vaapi_proc_colour_standard(av_cs) ==
    CASE av_cs = "bt709"     -> "VAProcColorStandardBT709"
      [] av_cs = "bt470bg"   -> "VAProcColorStandardBT601"
      [] av_cs = "smpte170m" -> "VAProcColorStandardSMPTE170M"
      [] av_cs = "smpte240m" -> "VAProcColorStandardSMPTE240M"
      [] OTHER               -> "VAProcColorStandardNone"

FirstFrame == CHOOSE f \in Frames : f.colorspace = Colorspaces[1]

\* ------------------------------------------- the driver, per picture
vaBeginPicture(m, ok, surface) ==
    Display(m, LAMBDA x :
        [x EXCEPT !.calls = Append(@, Call("vaBeginPicture", surface, ok, ""))])

\* vaRenderPicture of one buffer.  A driver without the render-param-buffers
\* quirk, under a libva older than 1.0, destroys the buffers it is given.
vaRenderPicture(m, ok, id) ==
    Display(m, LAMBDA x :
        [x EXCEPT
            !.calls = Append(@, Call("vaRenderPicture", id, ok, "1")),
            !.vaBuffers =
                IF ok /\ ~(x.CONFIG_VAAPI_1 \/ x.driver_quirks)
                THEN [b \in DOMAIN x.vaBuffers \ {id} |-> x.vaBuffers[b]]
                ELSE @])

vaEndPicture(m, ok) ==
    Display(m, LAMBDA x :
        [x EXCEPT !.calls = Append(@, Call("vaEndPicture",
                                           x.ctx.va_context, ok, ""))])

\* --------------------------------------------- procamp_vaapi_filter_frame
\* the steps of filter_frame that can fail, or "none"; the output surface
\* is a separate input, for the code goes on without one
FrameSteps == {"none", "alloc", "begin", "create", "render", "end", "copy"}

\* The fail: label; output_frame: whether the local is non-null.
filter_frame_fail(m, err, output_frame) ==
    [m EXCEPT !.heap.output_frames = @ - (IF output_frame THEN 1 ELSE 0),
              !.ret = err]

\* fail_after_render: without its vaEndPicture
filter_frame_fail_after_render_no_end(m, err, in) ==
    filter_frame_fail(m, err, TRUE)

\* The fail_after_render: label.
filter_frame_fail_after_render(m, err, in) ==
    Then(vaEndPicture(m, in.cleanupOk), LAMBDA x :
        filter_frame_fail(x, err, TRUE))

\* The fail_after_begin: label.  params_id is what the local holds: the id
\* vaCreateBuffer gave, or whatever the uninitialised local happens to hold.
\* The driver renders a buffer only if it is a live pipeline-parameter buffer.
filter_frame_fail_after_begin(m, err, in, params_id) ==
    Then(vaRenderPicture(m,
                         /\ in.cleanupOk
                         /\ params_id \in DOMAIN m.vaBuffers
                         /\ m.vaBuffers[params_id].type = "pipeline",
                         params_id),
         LAMBDA x : filter_frame_fail_after_render(x, err, in))

\* the colour standards of the pipeline parameters, lines 384-389
colour_standards_output_none(av_cs) ==
    [surface |-> vaapi_proc_colour_standard(av_cs),
     output  |-> "VAProcColorStandardNone"]

colour_standards(av_cs) ==
    [surface |-> vaapi_proc_colour_standard(av_cs),
     output  |-> vaapi_proc_colour_standard(av_cs)]

\* av_frame_copy_props leaving the timestamp of the output frame unset
av_frame_copy_props_without_pts(src) == [pts |-> 0]

\* av_frame_copy_props(output_frame, input_frame): what the output frame
\* takes from the input frame
av_frame_copy_props(src) == [pts |-> src.pts]

\* Lines 427-454: end the picture, free the buffer, hand the frame on.
filter_frame_end(m, in, params_id, surface) ==
    Then(vaEndPicture(m, in.failAt # "end"), LAMBDA m1 :
        IF in.failAt = "end"
        THEN filter_frame_fail_after_render(m1, AVERROR(EIO), in)
        ELSE LET m2 == IF m1.CONFIG_VAAPI_1 \/ m1.driver_quirks
                       THEN vaDestroyBuffer(m1, params_id)
                       ELSE m1
             IN  Then(m2, LAMBDA m3 :
                    IF in.failAt = "copy"
                    THEN filter_frame_fail(m3, AVERROR(ENOMEM), TRUE)
                    ELSE [m3 EXCEPT
                            !.heap.input_frames = @ - 1,
                            !.heap.output_frames = @ - 1,
                            !.delivered =
                                <<[pts |-> av_frame_copy_props(in.frame).pts,
                                   surface |-> surface,
                                   hw_frames_ctx |-> m3.ctx.output_frames_ref]>>,
                            !.ret = 0]))

\* Lines 397-425: begin the picture, create and render the parameters.
filter_frame_submit(m, in, surface) ==
    Then(vaBeginPicture(m, in.failAt # "begin", surface), LAMBDA m1 :
        IF in.failAt = "begin"
        THEN filter_frame_fail(m1, AVERROR(EIO), TRUE)
        ELSE LET before == DOMAIN m1.vaBuffers
                 params ==
                     [surface_color_standard |->
                          colour_standards(in.frame.colorspace).surface,
                      output_color_standard |->
                          colour_standards(in.frame.colorspace).output,
                      filters |-> m1.ctx.filter_buffer,
                      num_filters |-> 1]
             IN  Then(vaCreateBuffer(m1, in.failAt # "create", "pipeline", params),
                      LAMBDA m2 :
                        IF in.failAt = "create"
                        THEN filter_frame_fail_after_begin(
                                 m2, AVERROR(EIO), in, in.garbage)
                        ELSE LET params_id ==
                                     CHOOSE b \in DOMAIN m2.vaBuffers :
                                         b \notin before
                             IN  Then(vaRenderPicture(m2, in.failAt # "render",
                                                      params_id),
                                      LAMBDA m3 :
                                        IF in.failAt = "render"
                                        THEN filter_frame_fail_after_begin(
                                                 m3, AVERROR(EIO), in, params_id)
                                        ELSE filter_frame_end(m3, in, params_id,
                                                              surface))))

\* in.frame: the input frame (pts, colorspace); in.poolOk: whether the pool
\* has a free surface; in.failAt: the step that fails; in.cleanupOk: whether
\* the driver accepts the calls of the failure path; in.garbage: the value
\* of the uninitialised params_id.
filter_frame(m, in) ==
    LET m0 == [m EXCEPT !.heap.input_frames = @ + 1] IN
    IF m0.ctx.va_context = VA_INVALID_ID
    THEN [m0 EXCEPT !.ret = AVERROR(EINVAL)]
    ELSE IF in.failAt = "alloc"
    THEN filter_frame_fail(m0, AVERROR(ENOMEM), FALSE)
    ELSE LET m1 == [m0 EXCEPT !.heap.output_frames = @ + 1] IN
         \* av_hwframe_get_buffer reads output_frames_ref->data
         IF m1.ctx.output_frames_ref = NULL
         THEN [m1 EXCEPT !.fault = "segv"]
         \* a failure is logged and the function goes on, with data[3] null
         ELSE filter_frame_submit(m1, in, IF in.poolOk THEN 1 ELSE 0)

\* ------------------------------------- what a callback was called with
\* whether the last build succeeded and nothing was torn down since
Ready(c) ==
    /\ c.va_config # VA_INVALID_ID
    /\ c.va_context # VA_INVALID_ID
    /\ c.filter_buffer # VA_INVALID_ID
    /\ c.output_frames_ref # NULL

\* what procamp_vaapi_pipeline_uninit leaves of the context
TornDown(c) ==
    /\ c.filter_buffer = VA_INVALID_ID
    /\ c.va_context = VA_INVALID_ID
    /\ c.va_config = VA_INVALID_ID
    /\ c.output_frames_ref = NULL
    /\ c.device_ref = NULL
    /\ c.hwctx = NULL

NoInput ==
    [hw_frames_ctx |-> NULL, failAt |-> "none",
     valid |-> [has |-> FALSE, fmts |-> {}],
     frame |-> [pts |-> 0, colorspace |-> "unspecified"],
     poolOk |-> TRUE, cleanupOk |-> TRUE, garbage |-> VA_INVALID_ID]

Note(op, in, rdy) ==
    [op |-> op, hw_frames_ctx |-> in.hw_frames_ctx, failAt |-> in.failAt,
     valid |-> in.valid, frame |-> in.frame, poolOk |-> in.poolOk,
     ready |-> rdy, torn |-> TornDown(ctx)]

\* ------------------------------------------------------------- Init
\* The state after construction: a zero-filled context with the options
\* o set, nothing live in the driver.
Constructed(e, o) ==
    /\ stage = "constructed"
    /\ env = e
    /\ ctx = [valid_ids |-> 0, va_config |-> 0, va_context |-> 0,
              filter_buffer |-> 0, hwctx |-> NULL, device_ref |-> NULL,
              input_frames_ref |-> NULL, input_frames |-> NULL,
              output_frames_ref |-> NULL, output_frames |-> NULL,
              output_format |-> AV_PIX_FMT_ZERO,
              output_width |-> 0, output_height |-> 0,
              bright |-> o[1], contrast |-> o[2],
              hue |-> o[3], saturation |-> o[4]]
    /\ vaConfigs = {}
    /\ vaContexts = <<>>
    /\ vaBuffers = <<>>
    /\ hwframes = <<>>
    /\ outlink = [w |-> 0, h |-> 0, hw_frames_ctx |-> NULL]
    /\ refsHeld = [device |-> 0, input |-> 0, output |-> 0]
    /\ heap = [hwconfig |-> 0, constraints |-> 0,
               input_frames |-> 0, output_frames |-> 0]
    /\ calls = <<>>
    /\ ret = 0
    /\ delivered = <<>>
    /\ fault = "none"
    /\ last = Note("new", NoInput, FALSE)

Init == \E e \in Envs : Constructed(e, UserOptions)

InitParams ==
    \E e \in ParamEnvs, o \in OptionSets : Constructed(e, o)

\* ------------------------------------------------------------ actions
Alive == fault = "none"

\* Objects the filter owns that no field of its context points to any more
\* (a leaked hwconfig and its constraints counted as one), frames apart: the
\* model stops a run that would leak more than MaxLeak of them.
Leaked(m) ==
    m.heap.hwconfig
    + (m.refsHeld.input - (IF m.ctx.input_frames_ref = NULL THEN 0 ELSE 1))
    + (m.refsHeld.output - (IF m.ctx.output_frames_ref = NULL THEN 0 ELSE 1))
    + (m.refsHeld.device - (IF m.ctx.device_ref = NULL THEN 0 ELSE 1))
    + Cardinality({b \in DOMAIN m.vaBuffers : b # m.ctx.filter_buffer})

Do_init ==
    /\ Alive /\ stage = "constructed"
    /\ Commit(init(Cur))
    /\ stage' = "initialised"
    /\ last' = Note("init", NoInput, FALSE)
    /\ UNCHANGED env

Do_config_input ==
    /\ Alive /\ stage = "initialised"
    /\ \E p \in InPools \cup {NULL} :
          LET m == config_input(Cur, p) IN
          /\ Leaked(m) <= MaxLeak
          /\ Commit(m)
          /\ last' = Note("config_input",
                          [NoInput EXCEPT !.hw_frames_ctx = p], Ready(ctx))
    /\ UNCHANGED <<stage, env>>

Do_config_output ==
    /\ Alive /\ stage = "initialised"
    /\ ctx.input_frames # NULL
    /\ \E f \in ConfigSteps, v \in ValidLists :
          LET in == [NoInput EXCEPT !.failAt = f, !.valid = v]
              m  == config_output(Cur, in)
          IN  \* an input that is never read is not varied
              /\ f # "none" => v = NoInput.valid
              /\ Leaked(m) <= MaxLeak
              /\ Commit(m)
              /\ last' = Note("config_output", in, Ready(ctx))
    /\ UNCHANGED <<stage, env>>

Do_filter_frame ==
    /\ Alive /\ stage = "initialised"
    /\ \E fr \in Frames, pool \in BOOLEAN, f \in FrameSteps, cl \in BOOLEAN,
          g \in {VA_INVALID_ID} \cup DOMAIN vaBuffers :
          LET in == [NoInput EXCEPT !.frame = fr,
                                    !.poolOk = pool, !.failAt = f,
                                    !.cleanupOk = cl, !.garbage = g]
              m  == filter_frame(Cur, in)
          IN  \* inputs that are never read are not varied
              /\ f \notin {"create", "render", "end"} => cl
              /\ f # "create" => g = VA_INVALID_ID
              /\ f # "none" => fr = FirstFrame
              \* the pool runs dry for one frame, and before a failing begin
              /\ ~pool => (fr = FirstFrame /\ f \in {"none", "begin"})
              /\ Leaked(m) <= MaxLeak
              /\ Commit(m)
              /\ last' = Note("filter_frame", in, Ready(ctx))
    /\ UNCHANGED <<stage, env>>

Do_uninit ==
    /\ Alive /\ stage \in {"constructed", "initialised"}
    /\ Commit(uninit(Cur))
    /\ stage' = "freed"
    /\ last' = Note("uninit", NoInput, Ready(ctx))
    /\ UNCHANGED env

Next ==
    \/ Do_init
    \/ Do_config_input
    \/ Do_config_output
    \/ Do_filter_frame
    \/ Do_uninit

\* the whole life of a filter instance
Spec == Init /\ [][Next]_vars

\* the configuration callbacks alone, for every option string and every set
\* of device ranges
NextParams ==
    \/ Do_init
    \/ Do_config_input
    \/ Do_config_output
    \/ Do_uninit

SpecParams == InitParams /\ [][NextParams]_vars


\* ------------------------------------------------------------- claims
FilterBuffers(vb) == {b \in DOMAIN vb : vb[b].type = "filter"}

\* the successful calls of fn (on a buffer of the given type, if one is
\* given) among the first k calls of log
Count(log, fn, type, k) ==
    Cardinality({j \in 1 .. k :
        log[j].fn = fn /\ log[j].ok /\ (type = "" \/ log[j].arg = type)})

\* the objects live after the first k calls of log, n0 being live before
LiveAt(n0, log, create, destroy, type, k) ==
    n0 + Count(log, create, type, k) - Count(log, destroy, type, k)

\* the value of control i in the parameter buffer of the context
Encoded(i) == vaBuffers[ctx.filter_buffer].data[i]

\* the device range of control i
DeviceRange(i) == env.caps[Attrib(i)]

\* whether the capability query reports the range of control i
Reported(i) == Attrib(i) <= env.num_caps

Clamp(v, lo, hi) ==
    LET low == IF v < hi THEN v ELSE hi IN IF low > lo THEN low ELSE lo

HasParams == Ready(ctx) /\ ctx.filter_buffer \in DOMAIN vaBuffers

\* C1: across any callback, and so across any sequence of rebuilds, at most
\* one configuration, one execution context and one parameter buffer are
\* live after each driver call the callback makes, and at its end.
C1_Step ==
    /\ \A k \in 0 .. Len(calls') :
        /\ LiveAt(Cardinality(vaConfigs), calls',
                  "vaCreateConfig", "vaDestroyConfig", "", k) <= 1
        /\ LiveAt(Cardinality(DOMAIN vaContexts), calls',
                  "vaCreateContext", "vaDestroyContext", "", k) <= 1
        /\ LiveAt(Cardinality(FilterBuffers(vaBuffers)), calls',
                  "vaCreateBuffer", "vaDestroyBuffer", "filter", k) <= 1
    /\ Cardinality(vaConfigs') <= 1
    /\ Cardinality(DOMAIN vaContexts') <= 1
    /\ Cardinality(FilterBuffers(vaBuffers')) <= 1

C1_AtMostOneLive == [][C1_Step]_vars

\* a rebuild of a Ready context that ends Ready, with one of each live
C1_Witness ==
    /\ last.op = "config_output" /\ last.ready /\ Ready(ctx)
    /\ Cardinality(vaConfigs) = 1
    /\ Cardinality(DOMAIN vaContexts) = 1
    /\ Cardinality(FilterBuffers(vaBuffers)) = 1
    /\ \E j \in 1 .. Len(calls) : calls[j].fn = "vaDestroyContext" /\ calls[j].ok

\* C2: a frame submitted to a context that is not Ready is refused with
\* EINVAL: no driver call, no output frame, no frame left allocated.
C2_RefusedWhenNotReady ==
    (last.op = "filter_frame" /\ ~last.ready) =>
        /\ fault = "none"
        /\ ret = AVERROR(EINVAL)
        /\ calls = <<>>
        /\ delivered = <<>>
        /\ heap.output_frames = 0

\* C3: when the pool has no free surface for a frame submitted to a Ready
\* context, filter_frame returns an error, makes no driver call and hands
\* no frame downstream.
C3_NoSurfaceNoSubmission ==
    (last.op = "filter_frame" /\ last.ready
        /\ ~last.poolOk /\ last.failAt # "alloc") =>
        /\ ret < 0
        /\ calls = <<>>
        /\ delivered = <<>>

\* the error of the step that fails in a build
ConfigError(failAt) ==
    CASE failAt \in {"config", "context", "querycaps", "buffer"} -> AVERROR(EIO)
      [] failAt = "none" -> AVERROR(EINVAL)
      [] OTHER -> AVERROR(ENOMEM)

\* C4: a build that fails has released, by the time it returns, everything
\* it created: configuration, execution context, parameter buffer, output
\* pool reference, hwconfig and constraints; and it returns the error of
\* the step that failed.
C4_FailedBuildReleasesAll ==
    (last.op = "config_output" /\ fault = "none" /\ ret < 0) =>
        /\ ret = ConfigError(last.failAt)
        /\ vaConfigs = {}
        /\ DOMAIN vaContexts = {}
        /\ FilterBuffers(vaBuffers) = {}
        /\ ctx.output_frames_ref = NULL
        /\ refsHeld.output = 0
        /\ heap.hwconfig = 0
        /\ heap.constraints = 0

C6_EncodedIsClamped ==
    HasParams =>
        \A i \in Controls :
            (Reported(i) /\ UserValue(ctx, i) # OptDefault(i)) =>
                Encoded(i) = Clamp(UserValue(ctx, i),
                                   DeviceRange(i).min, DeviceRange(i).max)

\* C7: the encoded value of a control left at its default is that default,
\* whatever the device range.
C7_DefaultNotClamped ==
    HasParams =>
        \A i \in Controls :
            UserValue(ctx, i) = OptDefault(i) => Encoded(i) = OptDefault(i)

\* a Ready context with a control at a default that its device range excludes
C7_Witness ==
    /\ HasParams
    /\ \E i \in Controls :
        /\ UserValue(ctx, i) = OptDefault(i)
        /\ Reported(i)
        /\ OptDefault(i) < DeviceRange(i).min
        /\ Encoded(i) = OptDefault(i)

\* C8: in a Ready context every encoded value lies in the logical domain of
\* its control and in the device range the query reported for its control.
C8_EncodedWithinBoth ==
    HasParams =>
        \A i \in Controls :
            /\ OptMin(i) <= Encoded(i) /\ Encoded(i) <= OptMax(i)
            /\ Reported(i) =>
                /\ DeviceRange(i).min <= Encoded(i)
                /\ Encoded(i) <= DeviceRange(i).max

\* C9: the output pool of a successful build has the sample format, width
\* and height of the input bound by the latest config_input, and size 10.
C9_PoolFollowsInput ==
    (last.op = "config_output" /\ fault = "none" /\ ret = 0) =>
        LET pool  == hwframes[ctx.output_frames_ref]
            input == InputFrames(ctx.input_frames)
        IN  /\ pool.sw_format = input.sw_format
            /\ pool.width = input.width
            /\ pool.height = input.height
            /\ pool.initial_pool_size = 10

\* whether the build got as far as the check of the output format
ReachedFormatCheck == last.failAt \notin {"config", "hwconfig", "constraints"}

\* C10: a build whose output format is not in the device's list fails with
\* EINVAL, with no output pool and no execution context created and the
\* context not Ready; a format in the list, or no list, does not fail the
\* build.
C10_FormatCheck ==
    (last.op = "config_output" /\ ReachedFormatCheck) =>
        IF last.valid.has /\ ctx.output_format \notin last.valid.fmts
        THEN /\ ret = AVERROR(EINVAL)
             /\ ctx.output_frames_ref = NULL
             /\ refsHeld.output = 0
             /\ ctx.va_context = VA_INVALID_ID
             /\ DOMAIN vaContexts = {}
             /\ \A j \in 1 .. Len(calls) : calls[j].fn # "vaCreateContext"
             /\ ~Ready(ctx)
        ELSE last.failAt = "none" => (ret = 0 /\ Ready(ctx))

\* a build refused for its format
C10_Witness ==
    /\ last.op = "config_output" /\ ReachedFormatCheck
    /\ last.valid.has /\ ctx.output_format \notin last.valid.fmts
    /\ ret = AVERROR(EINVAL)

\* the state procamp_vaapi_pipeline_uninit would leave, its own log empty
AfterTeardown(m) == [pipeline_uninit([m EXCEPT !.calls = <<>>]) EXCEPT !.calls = <<>>]

\* nothing of the pipeline is left in m
FullyReleased(m) ==
    /\ m.fault = "none"
    /\ TornDown(m.ctx)
    /\ m.vaConfigs = {}
    /\ DOMAIN m.vaContexts = {}
    /\ FilterBuffers(m.vaBuffers) = {}
    /\ m.refsHeld.output = 0
    /\ m.refsHeld.device = 0

\* two teardowns in a row of the current state leave what one leaves, with
\* everything released
TeardownTwiceAsOnce ==
    /\ FullyReleased(AfterTeardown(Cur))
    /\ AfterTeardown(AfterTeardown(Cur)) = AfterTeardown(Cur)

QueryFailed == last.op = "config_output" /\ last.failAt = "querycaps"

\* C11, as claimed: a build in which the capability query fails ends with a
\* configuration but no execution context created, not Ready, and two
\* teardowns in a row then leave the fully released state one leaves.
C11_AbortsInConfigBuilt ==
    QueryFailed =>
        /\ ret = AVERROR(EIO)
        /\ ctx.va_config \in vaConfigs
        /\ ctx.va_context = VA_INVALID_ID
        /\ DOMAIN vaContexts = {}
        /\ \A j \in 1 .. Len(calls) : calls[j].fn # "vaCreateContext"
        /\ ~Ready(ctx)
        /\ TeardownTwiceAsOnce

\* C11, amended: a build in which the capability query fails ends with the
\* configuration and the execution context both created and live and no
\* parameter buffer, not Ready, and two teardowns in a row then leave the
\* fully released state one leaves.
C11_AbortsInContextBuilt ==
    QueryFailed =>
        /\ fault = "none"
        /\ ret = AVERROR(EIO)
        /\ vaConfigs = {ctx.va_config}
        /\ DOMAIN vaContexts = {ctx.va_context}
        /\ ctx.filter_buffer = VA_INVALID_ID
        /\ FilterBuffers(vaBuffers) = {}
        /\ ~Ready(ctx)
        /\ TeardownTwiceAsOnce

\* a build whose capability query failed, after the context was created
C11_Witness ==
    /\ QueryFailed
    /\ \E j \in 1 .. Len(calls) :
          calls[j].fn = "vaQueryVideoProcFilterCaps" /\ ~calls[j].ok
    /\ ctx.va_context \in DOMAIN vaContexts

\* C12: a build on a device that does not report the range of one of the
\* four controls, with no other step failing, fails with the capability
\* error and creates no parameter buffer.
C12_MissingRangeFails ==
    (last.op = "config_output" /\ last.failAt = "none"
        /\ \E i \in Controls : ~Reported(i)) =>
        /\ ret = AVERROR(EIO)
        /\ ctx.filter_buffer = VA_INVALID_ID
        /\ FilterBuffers(vaBuffers) = {}

\* the callbacks that tear the pipeline down
TeardownOps == {"config_input", "config_output", "uninit"}

\* a destroy call of the driver, or the release of the device reference
IsRelease(c) ==
    \/ c.fn \in {"vaDestroyBuffer", "vaDestroyContext", "vaDestroyConfig"}
    \/ (c.fn = "av_buffer_unref" /\ c.arg = "device_ref")

\* function and object of each entry of a log
FnIds(log) == [j \in 1 .. Len(log) |-> <<log[j].fn, log[j].id>>]

\* the releases a teardown of context c owes, in order, given the live
\* buffers vb, execution contexts vc and configurations vg of the driver
OwedReleases(c, vb, vc, vg) ==
    (IF c.filter_buffer \in DOMAIN vb
        THEN << <<"vaDestroyBuffer", c.filter_buffer>> >> ELSE <<>>)
    \o (IF c.va_context \in DOMAIN vc
        THEN << <<"vaDestroyContext", c.va_context>> >> ELSE <<>>)
    \o (IF c.va_config \in vg
        THEN << <<"vaDestroyConfig", c.va_config>> >> ELSE <<>>)
    \o (IF c.device_ref # NULL
        THEN << <<"av_buffer_unref", c.device_ref>> >> ELSE <<>>)

\* C13: a callback that tears the pipeline down destroys the live objects
\* the context owns in the order parameter buffer, execution context,
\* configuration, each once, and releases the device reference after them.
C13_Step ==
    (last'.op \in TeardownOps /\ fault' = "none") =>
        FnIds(SelectSeq(calls', IsRelease))
            = OwedReleases(ctx, vaBuffers, vaContexts, vaConfigs)

C13_ReverseOrder == [][C13_Step]_vars

\* a teardown that had all three objects to destroy
C13_Witness ==
    /\ last.op \in TeardownOps /\ fault = "none"
    /\ Len(calls) >= 4
    /\ calls[1].fn = "vaDestroyBuffer" /\ calls[1].ok
    /\ calls[2].fn = "vaDestroyContext" /\ calls[2].ok
    /\ calls[3].fn = "vaDestroyConfig" /\ calls[3].ok
    /\ \E j \in 4 .. Len(calls) :
          calls[j].fn = "av_buffer_unref" /\ calls[j].arg = "device_ref"

\* the driver's objects and the references held are as they were
DriverUnchanged ==
    /\ vaConfigs' = vaConfigs
    /\ vaContexts' = vaContexts
    /\ vaBuffers' = vaBuffers
    /\ refsHeld' = refsHeld

\* C14: a teardown of a torn-down context makes no destroy call and
\* releases no reference of the pipeline, and where the callback does
\* nothing but tear down it leaves the state as it was; from every state of
\* an initialised filter two teardowns in a row leave what one leaves.
C14_Step ==
    (TornDown(ctx) /\ ctx.valid_ids # 0
        /\ last'.op \in TeardownOps /\ fault' = "none") =>
        /\ SelectSeq(calls', IsRelease) = <<>>
        /\ (last'.op = "config_input" /\ last'.hw_frames_ctx = NULL) =>
                (calls' = <<>> /\ ctx' = ctx /\ DriverUnchanged)
        /\ last'.op = "uninit" =>
                /\ ctx' = [ctx EXCEPT !.input_frames_ref = NULL]
                /\ vaConfigs' = vaConfigs /\ vaContexts' = vaContexts
                /\ vaBuffers' = vaBuffers
                /\ refsHeld'.output = refsHeld.output
                /\ refsHeld'.device = refsHeld.device

C14_TeardownIdempotent ==
    /\ [](stage = "initialised" => TeardownTwiceAsOnce)
    /\ [][C14_Step]_vars

\* a teardown and nothing else, run on a context already torn down
C14_Witness ==
    /\ last.op = "config_input" /\ last.hw_frames_ctx = NULL
    /\ last.torn /\ last.ready = FALSE
    /\ calls = <<>>
    /\ TornDown(ctx)
    /\ ctx.input_frames_ref # NULL

\* the index of the first call of a log that failed, 0 if none did
FirstFailed(log) ==
    IF \A j \in 1 .. Len(log) : log[j].ok THEN 0
    ELSE CHOOSE j \in 1 .. Len(log) :
            ~log[j].ok /\ \A k \in 1 .. (j - 1) : log[k].ok

\* the calls a callback made after the first that failed
Cleanup(log) == SubSeq(log, FirstFailed(log) + 1, Len(log))

\* a submission in which buffer creation, render or end failed
FailedAfterBegin ==
    /\ last.op = "filter_frame" /\ fault = "none"
    /\ last.failAt \in {"create", "render", "end"}
    /\ FirstFailed(calls) > 0

\* C15: after a failure of buffer creation, render or end, the cleanup is a
\* render call with zero buffers followed by one end call, and filter_frame
\* returns the error of the step that failed.
C15_CleanupRendersNothing ==
    FailedAfterBegin =>
        /\ Len(Cleanup(calls)) = 2
        /\ Cleanup(calls)[1].fn = "vaRenderPicture"
        /\ Cleanup(calls)[1].arg = "0"
        /\ Cleanup(calls)[2].fn = "vaEndPicture"
        /\ ret = AVERROR(EIO)

\* C16: while an execution context is live the filter still holds the
\* output pool it was created against and is still bound to the input
\* frames it was negotiated from.
C16_BoundWhileContextLive ==
    \A c \in DOMAIN vaContexts :
        /\ vaContexts[c].frames # NULL
        /\ ctx.output_frames_ref = vaContexts[c].frames
        /\ ctx.input_frames = vaContexts[c].input
        /\ ctx.input_frames_ref # NULL

\* the live transient (pipeline parameter) buffers
PipelineBuffers(vb) == {b \in DOMAIN vb : vb[b].type = "pipeline"}

\* the ids of the transient buffers a log shows created
CreatedHere(log) ==
    {log[j].id : j \in {k \in 1 .. Len(log) :
        log[k].fn = "vaCreateBuffer" /\ log[k].ok /\ log[k].arg = "pipeline"}}

\* whether the buffers given to vaRenderPicture have to be destroyed by
\* the caller
ExplicitRelease == env.CONFIG_VAAPI_1 \/ env.driver_quirks

\* C17: a submission creates at most one transient buffer, renders no
\* transient buffer that was live before it, has destroyed the one it
\* created when it returns if the device requires explicit release, and no
\* transient buffer is live after it.
C17_Step ==
    (last'.op = "filter_frame" /\ fault' = "none") =>
        /\ Cardinality(CreatedHere(calls')) <= 1
        /\ \A j \in 1 .. Len(calls') :
              calls'[j].fn = "vaRenderPicture" =>
                  calls'[j].id \notin PipelineBuffers(vaBuffers)
        /\ ExplicitRelease => CreatedHere(calls') \cap DOMAIN vaBuffers' = {}
        /\ PipelineBuffers(vaBuffers') = {}

C17_TransientBufferReleased == [][C17_Step]_vars

NoFramesContext == last.op = "config_input" /\ last.hw_frames_ctx = NULL

\* C18: config_input on a link with no hardware frames reference returns
\* EINVAL and leaves no output pool reference, configuration, execution
\* context or parameter buffer; a frame submitted next is refused with
\* EINVAL, with no driver call and no frame handed on.
C18_Step ==
    /\ NoFramesContext' =>
          /\ fault' = "none"
          /\ ret' = AVERROR(EINVAL)
          /\ TornDown(ctx')
          /\ vaConfigs' = {}
          /\ DOMAIN vaContexts' = {}
          /\ FilterBuffers(vaBuffers') = {}
          /\ refsHeld'.output = 0
    /\ (NoFramesContext /\ last'.op = "filter_frame") =>
          /\ fault' = "none"
          /\ ret' = AVERROR(EINVAL)
          /\ calls' = <<>>
          /\ delivered' = <<>>

C18_NoFramesContextFails == [][C18_Step]_vars

\* a config_input that found no frames reference, on a Ready context
C18_Witness ==
    /\ NoFramesContext /\ last.ready
    /\ ret = AVERROR(EINVAL)
    /\ TornDown(ctx)
    /\ Len(calls) > 0

\* the hardware tag the colour standard mapping is to give a colorspace
ExpectedStandard(av_cs) ==
    CASE av_cs = "bt709"     -> "VAProcColorStandardBT709"
      [] av_cs = "bt470bg"   -> "VAProcColorStandardBT601"
      [] av_cs = "smpte170m" -> "VAProcColorStandardSMPTE170M"
      [] av_cs = "smpte240m" -> "VAProcColorStandardSMPTE240M"
      [] OTHER               -> "VAProcColorStandardNone"

\* the pipeline parameters a log shows given to the driver
PipelineParams(log) ==
    {log[j].data : j \in {k \in 1 .. Len(log) :
        log[k].fn = "vaCreateBuffer" /\ log[k].arg = "pipeline"}}

\* C19: the pipeline parameters of a submission carry, as input and as
\* output colour standard, the tag of the input frame's colorspace, "none"
\* for a colorspace that has no tag; a submission in which no call fails
\* succeeds whatever the colorspace.
C19_ColourStandard ==
    (last.op = "filter_frame" /\ fault = "none") =>
        /\ \A p \in PipelineParams(calls) :
              /\ p.surface_color_standard = ExpectedStandard(last.frame.colorspace)
              /\ p.output_color_standard = p.surface_color_standard
        /\ (last.ready /\ last.failAt = "none") =>
              /\ ret = 0
              /\ Len(delivered) = 1
              /\ PipelineParams(calls) # {}

\* a submission of a frame whose colorspace has no tag, handed on
C19_Witness ==
    /\ last.op = "filter_frame" /\ fault = "none"
    /\ last.frame.colorspace \notin
          {"bt709", "bt470bg", "smpte170m", "smpte240m"}
    /\ ret = 0 /\ Len(delivered) = 1
    /\ \E p \in PipelineParams(calls) :
          p.surface_color_standard = "VAProcColorStandardNone"

\* the calls of the begin/render/end protocol
IsProtocol(c) ==
    c.fn \in {"vaBeginPicture", "vaCreateBuffer", "vaRenderPicture", "vaEndPicture"}

Fns(log) == [j \in 1 .. Len(log) |-> log[j].fn]

\* C20: in a submission, no buffer creation, render or end call is made
\* unless a begin call succeeded before it; a begin call that succeeded is
\* followed by an end call; and a submission that succeeds has made the
\* protocol calls begin, create buffer, render, end, in that order, each
\* once and each successful.
C20_Protocol ==
    (last.op = "filter_frame" /\ fault = "none") =>
        LET P == SelectSeq(calls, IsProtocol) IN
        /\ \A j \in 1 .. Len(P) :
              P[j].fn # "vaBeginPicture" =>
                  \E k \in 1 .. (j - 1) : P[k].fn = "vaBeginPicture" /\ P[k].ok
        /\ \A k \in 1 .. Len(P) :
              (P[k].fn = "vaBeginPicture" /\ P[k].ok) =>
                  \E j \in (k + 1) .. Len(P) : P[j].fn = "vaEndPicture"
        /\ Len(SelectSeq(P, LAMBDA c : c.fn = "vaBeginPicture")) <= 1
        /\ ret = 0 =>
              /\ Fns(P) = <<"vaBeginPicture", "vaCreateBuffer",
                            "vaRenderPicture", "vaEndPicture">>
              /\ \A j \in 1 .. Len(P) : P[j].ok

\* a submission whose render failed after a begin that succeeded
C20_Witness ==
    /\ last.op = "filter_frame" /\ fault = "none"
    /\ last.failAt = "render"
    /\ Len(calls) >= 4
    /\ calls[1].fn = "vaBeginPicture" /\ calls[1].ok
    /\ calls[Len(calls)].fn = "vaEndPicture"

\* C21: when filter_frame returns, the input frame it was given has been
\* released, whichever way it returns.
C21_InputFrameReleased ==
    (last.op = "filter_frame" /\ fault = "none") => heap.input_frames = 0

\* C22: after uninit no reference the filter took (input frame pools,
\* output pool, device) is still held and no configuration, execution
\* context or parameter buffer is live; and nothing is released twice: no
\* callback destroys an object that is not live, nor drops a reference it
\* does not hold.
C22_AllReleasedOnce ==
    /\ stage = "freed" =>
          /\ refsHeld.input = 0
          /\ refsHeld.output = 0
          /\ refsHeld.device = 0
          /\ vaConfigs = {}
          /\ DOMAIN vaContexts = {}
          /\ FilterBuffers(vaBuffers) = {}
    /\ \A j \in 1 .. Len(calls) :
          calls[j].fn \in {"vaDestroyBuffer", "vaDestroyContext",
                           "vaDestroyConfig"} => calls[j].ok
    /\ refsHeld.input >= 0 /\ refsHeld.output >= 0 /\ refsHeld.device >= 0

\* how the process dies when one of the assertions on the ids fails
AssertFaults == {"assert va_config", "assert va_context", "assert filter_buffer"}

\* C23: none of the three assertions made before an object is created
\* fails: the configuration id, the execution context id and the parameter
\* buffer id are each invalid when the object is about to be created.
C23_AssertionsHold == fault \notin AssertFaults

\* a build that passed the three assertions on a context in which a failed
\* build had left ids valid
C23_Witness ==
    /\ last.op = "config_output" /\ ~last.torn /\ ~last.ready
    /\ fault = "none"
    /\ \E i, j, k \in 1 .. Len(calls) :
          /\ i < j /\ j < k
          /\ calls[i].fn = "vaCreateConfig" /\ calls[i].ok
          /\ calls[j].fn = "vaCreateContext" /\ calls[j].ok
          /\ calls[k].fn = "vaCreateBuffer" /\ calls[k].ok
    /\ \E j \in 1 .. Len(calls) : calls[j].fn = "vaDestroyContext"

\* whether one of the three ids of the context names an object
AnyIdValid(c) ==
    \/ c.va_config # VA_INVALID_ID
    \/ c.va_context # VA_INVALID_ID
    \/ c.filter_buffer # VA_INVALID_ID

\* C24: once init has set the ids up, a context with a valid configuration,
\* execution context or parameter buffer id has its device reference and
\* its hwctx set; no callback dereferences a null hwctx.
C24_BoundWhileIdsValid ==
    /\ (ctx.valid_ids # 0 /\ AnyIdValid(ctx)) =>
          (ctx.device_ref # NULL /\ ctx.hwctx # NULL)
    /\ fault # "segv hwctx"

\* a failed build that left ids valid, the device still bound
C24_Witness ==
    /\ last.op = "config_output" /\ fault = "none" /\ ret < 0
    /\ ctx.va_config # VA_INVALID_ID
    /\ ctx.va_context # VA_INVALID_ID
    /\ ctx.hwctx # NULL /\ ctx.device_ref # NULL

=============================================================================
